---- MODULE Spec2Model ----
(***************************************************************************)
(* Model of magic8_companion/modules/ib_client.py: IBClient's fallback     *)
(* qualification of underlyings and options and the get_atm_options        *)
(* pipeline, run against a family of deterministic market sessions.        *)
(*                                                                         *)
(* Prices are integers in tenths of a dollar (USD(5) is 5.0), so that the  *)
(* half-way cases of Python's round() are representable.  A Python float   *)
(* attribute is a record [k, v]: a number, NaN or None.  An Optional or a  *)
(* list result is a sequence (<<>> is None / the empty list).              *)
(***************************************************************************)
EXTENDS Integers, Sequences, FiniteSets, TLC

VARIABLES
    symbols,              \* argument of get_atm_options
    days_to_expiry,       \* argument of get_atm_options
    enable_oi_streaming,  \* settings.enable_oi_streaming
    session,              \* the market session's answers (fixed for a run)
    sessionUp,            \* get_ib_connection() currently yields a session
    sessionSteady,        \* history: session and settings as they were at Init
    oi_fetcher,           \* self.oi_fetcher: <<>> or <<handle>>
    pc,                   \* position inside get_atm_options
    sym_i,                \* index into symbols of the symbol being processed
    underlying_contract,  \* local of get_atm_options
    spot_price,           \* local
    strikes_to_check,     \* local
    qualified_options,    \* local
    symbol_options_data,  \* local
    symbol_contracts,     \* local
    options_data,         \* the accumulator / return value
    error,                \* exception that left get_atm_options ("" if none)
    log,                  \* history: requests made by the current invocation
    mark,                 \* history: length of log before the latest step
    calls,                \* number of invocations started
    prev                  \* history: outcomes of the finished invocations

vars == <<symbols, days_to_expiry, enable_oi_streaming, session, sessionUp, sessionSteady,
          oi_fetcher, pc, sym_i, underlying_contract, spot_price,
          strikes_to_check, qualified_options, symbol_options_data,
          symbol_contracts, options_data, error, log, mark, calls, prev>>

(***************************** bounds **************************************)
MaxSymbols == 2
MaxCalls == 2

(***************************** values **************************************)
USD(d) == d * 10

Num(x) == [k |-> "num", v |-> x]
NaN == [k |-> "nan", v |-> 0]
PyNone == [k |-> "none", v |-> 0]

\* Python truthiness of a float-or-None: None and 0 are false, NaN is true
Truthy(x) == x.k = "nan" \/ (x.k = "num" /\ x.v # 0)
\* str(x) == 'nan'
IsNanStr(x) == x.k = "nan"

NoId == [alias |-> "", exchange |-> "", strike |-> 0, right |-> ""]

Symbols == {"SPX", "SPY", "XYZ"}

RECURSIVE Flatten(_)
Flatten(ss) == IF ss = <<>> THEN <<>> ELSE Head(ss) \o Flatten(Tail(ss))

(************************* the alias / exchange tables *********************)
\* qualify_underlying_with_fallback: symbol_variations
underlying_symbol_variations(symbol_name) ==
    IF symbol_name = "SPX" THEN <<"SPX", "SPXW">> ELSE <<symbol_name>>

\* qualify_underlying_with_fallback: exchange_map.get(sym_variant, ['SMART'])
underlying_exchange_map(sym_variant) ==
    CASE sym_variant = "SPX"  -> <<"CBOE", "SMART">>
      [] sym_variant = "SPXW" -> <<"CBOE", "SMART">>
      [] sym_variant = "RUT"  -> <<"SMART", "CBOE", "RUSSELL">>
      [] sym_variant = "SPY"  -> <<"SMART", "CBOE", "ARCA", "BATS">>
      [] sym_variant = "QQQ"  -> <<"SMART", "NASDAQ", "CBOE">>
      [] sym_variant = "IWM"  -> <<"SMART", "ARCA", "CBOE">>
      [] sym_variant = "VIX"  -> <<"CBOE", "SMART">>
      [] sym_variant = "NDX"  -> <<"NASDAQ", "SMART">>
      [] OTHER                -> <<"SMART">>

\* qualify_option_with_fallback: symbol_variations
option_symbol_variations(symbol_name) ==
    IF symbol_name = "SPX" THEN <<"SPXW", "SPX">> ELSE <<symbol_name>>

\* qualify_option_with_fallback: exchange_map.get(sym_variant, ['SMART'])
option_exchange_map(sym_variant) ==
    CASE sym_variant = "SPX"  -> <<"SMART", "CBOE">>
      [] sym_variant = "SPXW" -> <<"SMART", "CBOE">>
      [] sym_variant = "RUT"  -> <<"SMART", "CBOE", "RUSSELL">>
      [] sym_variant = "SPY"  -> <<"SMART", "CBOE", "ARCA", "BATS", "AMEX", "ISE">>
      [] sym_variant = "QQQ"  -> <<"SMART", "NASDAQ", "CBOE", "ARCA">>
      [] sym_variant = "IWM"  -> <<"SMART", "ARCA", "CBOE">>
      [] sym_variant = "NDX"  -> <<"SMART", "NASDAQ">>
      [] OTHER                -> <<"SMART">>

\* a variant that walks the aliases from the last to the first
underlying_combinations_reversed(symbol_name) ==
    Flatten([a \in 1..Len(underlying_symbol_variations(symbol_name)) |->
        LET n == Len(underlying_symbol_variations(symbol_name))
            sym_variant == underlying_symbol_variations(symbol_name)[n + 1 - a]
            exchanges == underlying_exchange_map(sym_variant)
        IN [e \in 1..Len(exchanges) |->
               [alias |-> sym_variant, exchange |-> exchanges[e]]]])

\* the order in which "for sym_variant ...: for exchange ...:" visits the pairs
underlying_combinations(symbol_name) ==
    Flatten([a \in 1..Len(underlying_symbol_variations(symbol_name)) |->
        LET sym_variant == underlying_symbol_variations(symbol_name)[a]
            exchanges == underlying_exchange_map(sym_variant)
        IN [e \in 1..Len(exchanges) |->
               [alias |-> sym_variant, exchange |-> exchanges[e]]]])

option_combinations(symbol_name) ==
    Flatten([a \in 1..Len(option_symbol_variations(symbol_name)) |->
        LET sym_variant == option_symbol_variations(symbol_name)[a]
            exchanges == option_exchange_map(sym_variant)
        IN [e \in 1..Len(exchanges) |->
               [alias |-> sym_variant, exchange |-> exchanges[e]]]])

(***************************** contracts ***********************************)
\* Index(sym_variant, exchange, 'USD') / Stock(sym_variant, exchange, 'USD')
UnderlyingCandidate(symbol_name, sym_variant, exchange) ==
    [secType |-> IF symbol_name \in {"SPX", "RUT", "VIX", "NDX"}
                 THEN "IND" ELSE "STK",
     symbol |-> sym_variant, exchange |-> exchange,
     lastTradeDateOrContractMonth |-> "", strike |-> 0, right |-> "",
     tradingClass |-> "", conId |-> NoId]

\* a variant that infers the class of the weekly alias before looking at the
\* hint
OptionCandidate_inferred_first(sym_variant, exchange, expiry_date, strike, right, trading_class) ==
    [secType |-> "OPT", symbol |-> sym_variant, exchange |-> exchange,
     lastTradeDateOrContractMonth |-> expiry_date, strike |-> strike,
     right |-> right,
     tradingClass |-> IF sym_variant = "SPXW" THEN "SPXW" ELSE trading_class,
     conId |-> NoId]

\* Option(...) followed by the tradingClass assignment
OptionCandidate(sym_variant, exchange, expiry_date, strike, right, trading_class) ==
    [secType |-> "OPT", symbol |-> sym_variant, exchange |-> exchange,
     lastTradeDateOrContractMonth |-> expiry_date, strike |-> strike,
     right |-> right,
     tradingClass |-> IF trading_class # "" THEN trading_class
                      ELSE IF sym_variant = "SPXW" THEN "SPXW" ELSE "",
     conId |-> NoId]

(***************************** the market session **************************)
\* The session is a mock fixed at Init: it answers like NominalSession for
\* every symbol but session.target, for which its fields say how it answers.
NominalTicker == [outcome |-> "ok", marketPrice |-> Num(USD(5003)), close |-> NaN]

NominalSession ==
    [target |-> "", ulFail |-> 0, tradingClass |-> FALSE,
     ticker |-> NominalTicker, optPat |-> "all", quotes |-> "ok",
     enrich |-> "ok"]

Behaviour(symbol_name) ==
    IF symbol_name = session.target THEN session ELSE NominalSession

\* the way the i-th refused request fails
FailureKind(i) ==
    CASE i % 3 = 1 -> "raise"
      [] i % 3 = 2 -> "empty"
      [] OTHER     -> "noid"

\* what qualifyContractsAsync does with a request, by kind of answer
QualifyAnswer(kind, contract, trading_class) ==
    CASE kind = "raise" -> [raised |-> TRUE, list |-> <<>>]
      [] kind = "empty" -> [raised |-> FALSE, list |-> <<>>]
      [] kind = "noid"  -> [raised |-> FALSE, list |-> <<contract>>]
      [] OTHER          ->
           [raised |-> FALSE,
            list |-> <<[contract EXCEPT
                          !.tradingClass = trading_class,
                          !.conId = [alias |-> contract.symbol,
                                     exchange |-> contract.exchange,
                                     strike |-> contract.strike,
                                     right |-> contract.right]]>>]

\* ib.qualifyContractsAsync(underlying_contract), i-th request for the symbol
QualifyUnderlyingAsync(symbol_name, contract, i) ==
    LET b == Behaviour(symbol_name)
    IN QualifyAnswer(IF i <= b.ulFail THEN FailureKind(i) ELSE "ok",
                     contract,
                     IF b.tradingClass THEN contract.symbol ELSE "")

\* ib.qualifyContractsAsync(opt_contract), i-th request for the contract
QualifyOptionAsync(symbol_name, contract, i) ==
    LET b == Behaviour(symbol_name)
        refused ==
            CASE b.optPat = "none"      -> TRUE
              [] b.optPat = "skipFirst" -> i = 1
              [] b.optPat = "smartCalls" ->
                    contract.exchange = "SMART" /\ contract.right = "P"
              [] b.optPat = "weeklyRound" ->
                    contract.symbol = "SPXW" /\ contract.strike % USD(10) # 0
              [] OTHER -> FALSE
    IN QualifyAnswer(IF refused THEN FailureKind(i) ELSE "ok",
                     contract, contract.tradingClass)

(***************************** ContractResolver ****************************)
\* a variant whose search ends at the first request that raises
RECURSIVE qualify_underlying_loop_break(_, _)
qualify_underlying_loop_break(symbol_name, i) ==
    LET combos == underlying_combinations(symbol_name)
    IN IF i > Len(combos)
       THEN [attempts |-> <<>>, result |-> <<>>]
       ELSE LET cand == UnderlyingCandidate(symbol_name, combos[i].alias,
                                            combos[i].exchange)
                ans == QualifyUnderlyingAsync(symbol_name, cand, i)
            IN IF ans.raised
               THEN [attempts |-> <<cand>>, result |-> <<>>]
               ELSE IF ans.list # <<>> /\ ans.list[1].conId # NoId
               THEN [attempts |-> <<cand>>, result |-> <<ans.list[1]>>]
               ELSE LET rest == qualify_underlying_loop_break(symbol_name, i + 1)
                    IN [attempts |-> <<cand>> \o rest.attempts,
                        result |-> rest.result]

\* the double loop of qualify_underlying_with_fallback, from combination i on
RECURSIVE qualify_underlying_loop(_, _)
qualify_underlying_loop(symbol_name, i) ==
    LET combos == underlying_combinations(symbol_name)
    IN IF i > Len(combos)
       THEN [attempts |-> <<>>, result |-> <<>>]
       ELSE LET cand == UnderlyingCandidate(symbol_name, combos[i].alias,
                                            combos[i].exchange)
                ans == QualifyUnderlyingAsync(symbol_name, cand, i)
            IN IF ~ans.raised /\ ans.list # <<>> /\ ans.list[1].conId # NoId
               THEN [attempts |-> <<cand>>, result |-> <<ans.list[1]>>]
               ELSE LET rest == qualify_underlying_loop(symbol_name, i + 1)
                    IN [attempts |-> <<cand>> \o rest.attempts,
                        result |-> rest.result]

\* qualify_underlying_with_fallback(symbol_name); raised = ConnectionError
qualify_underlying_with_fallback(symbol_name) ==
    IF ~sessionUp
    THEN [raised |-> TRUE, attempts |-> <<>>, result |-> <<>>]
    ELSE LET r == qualify_underlying_loop(symbol_name, 1)
         IN [raised |-> FALSE, attempts |-> r.attempts, result |-> r.result]

\* a variant that searches on after a success and returns the last one
RECURSIVE qualify_option_loop_last(_, _, _, _, _, _)
qualify_option_loop_last(symbol_name, expiry_date, strike, right, trading_class, i) ==
    LET combos == option_combinations(symbol_name)
    IN IF i > Len(combos)
       THEN [attempts |-> <<>>, result |-> <<>>]
       ELSE LET cand == OptionCandidate(combos[i].alias, combos[i].exchange,
                                        expiry_date, strike, right,
                                        trading_class)
                ans == QualifyOptionAsync(symbol_name, cand, i)
                rest == qualify_option_loop_last(symbol_name, expiry_date,
                            strike, right, trading_class, i + 1)
            IN IF rest.result = <<>>
                  /\ ~ans.raised /\ ans.list # <<>> /\ ans.list[1].conId # NoId
               THEN [attempts |-> <<cand>>, result |-> <<ans.list[1]>>]
               ELSE [attempts |-> <<cand>> \o rest.attempts,
                     result |-> rest.result]

\* the double loop of qualify_option_with_fallback, from combination i on
RECURSIVE qualify_option_loop(_, _, _, _, _, _)
qualify_option_loop(symbol_name, expiry_date, strike, right, trading_class, i) ==
    LET combos == option_combinations(symbol_name)
    IN IF i > Len(combos)
       THEN [attempts |-> <<>>, result |-> <<>>]
       ELSE LET cand == OptionCandidate(combos[i].alias, combos[i].exchange,
                                        expiry_date, strike, right,
                                        trading_class)
                ans == QualifyOptionAsync(symbol_name, cand, i)
            IN IF ~ans.raised /\ ans.list # <<>> /\ ans.list[1].conId # NoId
               THEN [attempts |-> <<cand>>, result |-> <<ans.list[1]>>]
               ELSE LET rest == qualify_option_loop(symbol_name, expiry_date,
                                    strike, right, trading_class, i + 1)
                    IN [attempts |-> <<cand>> \o rest.attempts,
                        result |-> rest.result]

\* a variant that works on the session get_atm_options obtained
qualify_option_with_fallback_unchecked(symbol_name, expiry_date, strike, right, trading_class) ==
    LET r == qualify_option_loop(symbol_name, expiry_date, strike,
                                 right, trading_class, 1)
    IN [raised |-> FALSE, attempts |-> r.attempts, result |-> r.result]

\* a variant that hands back the last candidate when none was qualified
qualify_option_with_fallback_candidate(symbol_name, expiry_date, strike, right, trading_class) ==
    IF ~sessionUp
    THEN [raised |-> TRUE, attempts |-> <<>>, result |-> <<>>]
    ELSE LET r == qualify_option_loop(symbol_name, expiry_date, strike,
                                      right, trading_class, 1)
         IN [raised |-> FALSE, attempts |-> r.attempts,
             result |-> IF r.result = <<>>
                        THEN <<r.attempts[Len(r.attempts)]>>
                        ELSE r.result]

\* qualify_option_with_fallback(...); raised = ConnectionError
qualify_option_with_fallback(symbol_name, expiry_date, strike, right, trading_class) ==
    IF ~sessionUp
    THEN [raised |-> TRUE, attempts |-> <<>>, result |-> <<>>]
    ELSE LET r == qualify_option_loop(symbol_name, expiry_date, strike,
                                      right, trading_class, 1)
         IN [raised |-> FALSE, attempts |-> r.attempts, result |-> r.result]

(***************************** StrikeSelector ******************************)
\* a variant that truncates, as int(n / d) does
PyRound_truncating(n, d) == n \div d

\* Python's round(n / d): nearest integer, halves to the even neighbour
PyRound(n, d) ==
    LET q == n \div d
        r == n % d
    IN IF 2 * r < d THEN q
       ELSE IF 2 * r > d THEN q + 1
       ELSE IF q % 2 = 0 THEN q ELSE q + 1

\* atm_strike = round(spot_price / 5) * 5, or round(spot_price) for SPY
atm_strike(symbol_name, spot) ==
    IF symbol_name \in {"SPX", "SPXW", "NDX"} THEN PyRound(spot, USD(5)) * USD(5)
    ELSE IF symbol_name = "SPY" THEN PyRound(spot, USD(1)) * USD(1)
    ELSE PyRound(spot, USD(5)) * USD(5)

strike_increment(symbol_name) ==
    IF symbol_name \in {"SPX", "SPXW", "RUT", "NDX"} THEN USD(5) ELSE USD(1)

num_strikes_each_side == 20

\* a variant with range(-sides, sides)
Ladder_short(atm, increment, sides) ==
    [k \in 1..(2 * sides) |-> atm + (k - sides - 1) * increment]

\* a variant that counts down from the highest strike
Ladder_descending(atm, increment, sides) ==
    [k \in 1..(2 * sides + 1) |-> atm + (sides + 1 - k) * increment]

\* [atm + i * increment for i in range(-sides, sides + 1)]
Ladder(atm, increment, sides) ==
    [k \in 1..(2 * sides + 1) |-> atm + (k - sides - 1) * increment]

\* spot_price as chosen from the answer to reqTickersAsync(underlying)
SpotPlaceholder == USD(5000)

\* a variant without the check of the chosen price
select_spot_price_unchecked(ticker) ==
    IF ticker.outcome = "ok"
       /\ (Truthy(ticker.marketPrice) \/ Truthy(ticker.close))
    THEN IF Truthy(ticker.marketPrice)
         THEN ticker.marketPrice.v ELSE ticker.close.v
    ELSE SpotPlaceholder

select_spot_price(ticker) ==
    IF ticker.outcome = "ok"
       /\ (Truthy(ticker.marketPrice) \/ Truthy(ticker.close))
    THEN LET sp == IF Truthy(ticker.marketPrice)
                   THEN ticker.marketPrice ELSE ticker.close
         IN IF ~Truthy(sp) \/ (sp.k = "num" /\ sp.v <= 0) \/ IsNanStr(sp)
            THEN SpotPlaceholder
            ELSE sp.v
    ELSE SpotPlaceholder

(***************************** records *************************************)
\* the ticker the session returns for one qualified option contract
OptionTicker(kind, contract) ==
    IF kind = "sentinel"
    THEN [contract |-> contract, bid |-> Num(USD(-1)), ask |-> Num(USD(-1)),
          modelGreeks |-> <<>>, impliedVolatility |-> NaN]
    ELSE IF kind = "mixed" /\ contract.right = "C"
    THEN [contract |-> contract, bid |-> Num(USD(-1)), ask |-> Num(USD(3)),
          modelGreeks |-> <<[impliedVol |-> NaN, gamma |-> PyNone,
                             delta |-> NaN]>>,
          impliedVolatility |-> Num(19)]
    ELSE IF kind = "mixed"
    THEN [contract |-> contract, bid |-> NaN, ask |-> Num(USD(-1)),
          modelGreeks |-> <<[impliedVol |-> PyNone, gamma |-> Num(0),
                             delta |-> Num(-50)]>>,
          impliedVolatility |-> PyNone]
    ELSE [contract |-> contract, bid |-> Num(USD(2)), ask |-> Num(USD(3)),
          modelGreeks |-> <<[impliedVol |-> Num(21), gamma |-> Num(4),
                             delta |-> Num(50)]>>,
          impliedVolatility |-> Num(19)]

\* a variant that only asks "is not None"
Numeric_not_none(x) == x.k # "none"

\* x is not None and not str(x) == 'nan'
Numeric(x) == x.k # "none" /\ ~IsNanStr(x)

\* option_data built from one ticker
option_data(symbol_name, ticker, spot) ==
    LET contract == ticker.contract
        mg == ticker.modelGreeks
        iv == IF mg # <<>> /\ Numeric(mg[1].impliedVol) THEN mg[1].impliedVol
              ELSE IF Numeric(ticker.impliedVolatility)
                   THEN ticker.impliedVolatility
              ELSE PyNone
    IN [symbol |-> symbol_name,
        underlying_symbol |-> contract.symbol,
        conId |-> contract.conId,
        strike |-> contract.strike,
        right |-> contract.right,
        expiry |-> contract.lastTradeDateOrContractMonth,
        bid |-> IF ticker.bid # Num(USD(-1)) THEN ticker.bid ELSE PyNone,
        ask |-> IF ticker.ask # Num(USD(-1)) THEN ticker.ask ELSE PyNone,
        implied_volatility |-> iv,
        open_interest |-> 0,
        gamma |-> IF mg # <<>> /\ Numeric(mg[1].gamma) THEN mg[1].gamma ELSE PyNone,
        delta |-> IF mg # <<>> /\ Numeric(mg[1].delta) THEN mg[1].delta ELSE PyNone,
        underlying_price_at_fetch |-> spot]

\* IBOpenInterestFetcher.enhance_options_with_oi: same records, in the same
\* order, with open_interest populated
enhance_options_with_oi(records, contracts) ==
    [i \in 1..Len(records) |-> [records[i] EXCEPT !.open_interest = 100 + i]]

(***************************** inputs **************************************)
\* calls of get_atm_options pass up to MaxSymbols distinct symbols
SymbolLists ==
    UNION {{l \in [1..n -> Symbols] :
              \A i, j \in 1..n : i # j => l[i] # l[j]} : n \in 0..MaxSymbols}

SpotValues ==
    {Num(USD(5002)), Num(USD(5003)), Num(USD(5002) + 5), Num(USD(5007) + 5)}

UnusableValues == {NaN, Num(0), Num(USD(-1))}

SpotTickers ==
    {[outcome |-> "ok", marketPrice |-> m, close |-> NaN] : m \in SpotValues}
    \cup {[outcome |-> "ok", marketPrice |-> m, close |-> c] :
            m \in UnusableValues, c \in {NaN, Num(USD(4999))}}
    \cup {[outcome |-> "ok", marketPrice |-> Num(0), close |-> c] :
            c \in {Num(0), Num(USD(-1))}}
    \cup {[outcome |-> o, marketPrice |-> NaN, close |-> NaN] :
            o \in {"empty", "raise"}}

\* the sessions tried: nominal but for one aspect of the target symbol
SessionsFor(t) ==
    LET n == [NominalSession EXCEPT !.target = t]
    IN {n}
       \cup {[n EXCEPT !.ulFail = f] : f \in 1..4}
       \cup {[n EXCEPT !.tradingClass = TRUE]}
       \cup {[n EXCEPT !.ticker = tk] : tk \in SpotTickers}
       \cup {[n EXCEPT !.optPat = o] :
               o \in {"none", "skipFirst", "smartCalls", "weeklyRound"}}
       \cup {[n EXCEPT !.quotes = q] : q \in {"sentinel", "mixed", "raise"}}
       \cup {[n EXCEPT !.enrich = "raise"]}

\* the DTE asked for: 0, and 1 of a session that is nominal throughout
DaysToExpiry(sess) ==
    IF [sess EXCEPT !.target = ""] = NominalSession THEN {0, 1} ELSE {0}

(***************************** history *************************************)
\* what a request says about a contract
Key(c) ==
    [secType |-> c.secType, symbol |-> c.symbol, exchange |-> c.exchange,
     expiry |-> c.lastTradeDateOrContractMonth,
     strike |-> c.strike, right |-> c.right, tradingClass |-> c.tradingClass]

Event(kind, symbol_name, ok, contracts) ==
    [ev |-> kind, sym |-> symbol_name, ok |-> ok,
     cs |-> [i \in 1..Len(contracts) |-> Key(contracts[i])]]

\* the requests of one qualify_*_with_fallback call, in order
QualifyEvents(symbol_name, r) ==
    <<Event("connect", symbol_name, ~r.raised, <<>>)>>
    \o [i \in 1..Len(r.attempts) |->
          Event("qualify", symbol_name,
                i = Len(r.attempts) /\ r.result # <<>>, <<r.attempts[i]>>)]

ExpiryDate == "today"

(***************************** IBClient ************************************)
\* _ensure_connected(): raised = ConnectionError, else the handle to keep
ensure_connected ==
    [raised |-> ~sessionUp,
     oi_fetcher |-> IF sessionUp /\ enable_oi_streaming /\ oi_fetcher = <<>>
                    THEN <<"IBOpenInterestFetcher">>
                    ELSE oi_fetcher]

\* a variant that goes on with the list of the previous invocation
NewOptionsData_kept == options_data

\* options_data = [] at the start of get_atm_options
NewOptionsData == <<>>

Init ==
    /\ symbols \in SymbolLists
    /\ enable_oi_streaming \in BOOLEAN
    /\ session \in IF symbols = <<>> THEN {NominalSession}
                   ELSE UNION {SessionsFor(symbols[i]) : i \in 1..Len(symbols)}
    /\ days_to_expiry \in DaysToExpiry(session)
    /\ sessionUp \in BOOLEAN
    /\ sessionSteady = TRUE
    /\ oi_fetcher = <<>>
    /\ pc = "idle"
    /\ sym_i = 0
    /\ underlying_contract = <<>>
    /\ spot_price = 0
    /\ strikes_to_check = <<>>
    /\ qualified_options = <<>>
    /\ symbol_options_data = <<>>
    /\ symbol_contracts = <<>>
    /\ options_data = <<>>
    /\ error = ""
    /\ log = <<>>
    /\ mark = 0
    /\ calls = 0
    /\ prev = <<>>

inputs == <<symbols, days_to_expiry, enable_oi_streaming, session>>
locals == <<underlying_contract, spot_price, strikes_to_check,
            qualified_options, symbol_options_data, symbol_contracts>>

\* an exception leaves get_atm_options
Raise(kind) ==
    /\ pc' = "raised"
    /\ error' = kind

\* a variant that leaves the loop over the symbols
NextSymbol_break ==
    /\ error' = error
    /\ pc' = "done"
    /\ sym_i' = sym_i

\* "continue" / end of the loop body: next symbol, or return options_data
NextSymbol ==
    /\ error' = error
    /\ IF sym_i < Len(symbols)
       THEN pc' = "underlying" /\ sym_i' = sym_i + 1
       ELSE pc' = "done" /\ sym_i' = sym_i

\* how the invocation that has just ended went, as its caller sees it
Outcome ==
    [pc |-> pc, error |-> error, log |-> log,
     result |-> IF pc = "done" THEN options_data ELSE <<>>]

\* get_atm_options is called: lines up to the loop over symbols
Invoke ==
    /\ pc \in {"idle", "done", "raised"}
    /\ calls < MaxCalls
    /\ calls' = calls + 1
    /\ prev' = IF pc = "idle" THEN prev ELSE Append(prev, Outcome)
    /\ log' = <<Event("connect", "", ~ensure_connected.raised, <<>>)>>
    /\ mark' = 0
    /\ oi_fetcher' = ensure_connected.oi_fetcher
    /\ underlying_contract' = <<>>
    /\ spot_price' = 0
    /\ strikes_to_check' = <<>>
    /\ qualified_options' = <<>>
    /\ symbol_options_data' = <<>>
    /\ symbol_contracts' = <<>>
    /\ IF ensure_connected.raised
       THEN /\ Raise("ConnectionError")
            /\ sym_i' = 0
            /\ options_data' = <<>>
       ELSE /\ options_data' = NewOptionsData
            /\ error' = ""
            /\ IF symbols = <<>>
               THEN pc' = "done" /\ sym_i' = 0
               ELSE pc' = "underlying" /\ sym_i' = 1
    /\ UNCHANGED <<inputs, sessionUp, sessionSteady>>

\* underlying_contract = await self.qualify_underlying_with_fallback(...)
QualifyUnderlying ==
    /\ pc = "underlying"
    /\ mark' = Len(log)
    /\ LET symbol_name == symbols[sym_i]
           r == qualify_underlying_with_fallback(symbol_name)
       IN /\ log' = log \o QualifyEvents(symbol_name, r)
          /\ oi_fetcher' = ensure_connected.oi_fetcher
          /\ underlying_contract' = r.result
          /\ IF r.raised
             THEN Raise("ConnectionError") /\ sym_i' = sym_i
             ELSE IF r.result = <<>>
                  THEN NextSymbol
                  ELSE pc' = "spot" /\ sym_i' = sym_i /\ error' = error
    /\ UNCHANGED <<inputs, sessionUp, sessionSteady, spot_price,
                   strikes_to_check, qualified_options, symbol_options_data,
                   symbol_contracts, options_data, calls, prev>>

\* the spot quote, the ATM strike and the strike ladder
SpotAndStrikes ==
    /\ pc = "spot"
    /\ mark' = Len(log)
    /\ LET symbol_name == symbols[sym_i]
           ticker == Behaviour(symbol_name).ticker
           spot == select_spot_price(ticker)
       IN /\ log' = Append(log, Event("tickers", symbol_name,
                                      ticker.outcome # "raise",
                                      underlying_contract))
          /\ IF ticker.outcome = "raise"
             THEN /\ Raise("RequestError")
                  /\ UNCHANGED <<spot_price, strikes_to_check>>
             ELSE /\ spot_price' = spot
                  /\ strikes_to_check' =
                        Ladder(atm_strike(symbol_name, spot),
                               strike_increment(symbol_name),
                               num_strikes_each_side)
                  /\ pc' = "options"
                  /\ error' = error
    /\ UNCHANGED <<inputs, sessionUp, sessionSteady, oi_fetcher, sym_i,
                   underlying_contract, qualified_options,
                   symbol_options_data, symbol_contracts, options_data,
                   calls, prev>>

\* a variant that asks for the call of every strike twice
Rights_calls == <<"C", "C">>

\* for right in ['C', 'P']
Rights == <<"C", "P">>

\* "Qualify options with fallback": calls lo..hi of the loops over
\* strikes_to_check and ['C', 'P'] (call n is strike (n+1)/2, 'C' when n is
\* odd), giving qualified_options and the requests made.  A ConnectionError
\* of a call ends the loops.  The range is split in halves only to keep the
\* evaluation shallow; the calls and their order are those of the loops.
RECURSIVE qualify_options_loop(_, _, _, _, _)
qualify_options_loop(symbol_name, strikes, trading_class, lo, hi) ==
    IF lo > hi
    THEN [raised |-> FALSE, qualified |-> <<>>, events |-> <<>>]
    ELSE IF lo = hi
    THEN LET r == qualify_option_with_fallback(symbol_name, ExpiryDate,
                      strikes[(lo + 1) \div 2],
                      Rights[2 - (lo % 2)], trading_class)
         IN [raised |-> r.raised, qualified |-> r.result,
             events |-> QualifyEvents(symbol_name, r)]
    ELSE LET mid == (lo + hi) \div 2
             a == qualify_options_loop(symbol_name, strikes, trading_class,
                                       lo, mid)
             b == qualify_options_loop(symbol_name, strikes, trading_class,
                                       mid + 1, hi)
         IN IF a.raised THEN a
            ELSE [raised |-> b.raised,
                  qualified |-> a.qualified \o b.qualified,
                  events |-> a.events \o b.events]

QualifyOptions ==
    /\ pc = "options"
    /\ mark' = Len(log)
    /\ LET symbol_name == symbols[sym_i]
           r == qualify_options_loop(symbol_name, strikes_to_check,
                    underlying_contract[1].tradingClass, 1,
                    2 * Len(strikes_to_check))
       IN /\ log' = log \o r.events
          /\ oi_fetcher' = ensure_connected.oi_fetcher
          /\ IF r.raised
             THEN /\ Raise("ConnectionError")
                  /\ sym_i' = sym_i
                  /\ UNCHANGED qualified_options
             ELSE /\ qualified_options' = r.qualified
                  /\ IF r.qualified = <<>>
                     THEN NextSymbol
                     ELSE pc' = "quotes" /\ sym_i' = sym_i /\ error' = error
    /\ UNCHANGED <<inputs, sessionUp, sessionSteady, underlying_contract,
                   spot_price, strikes_to_check, symbol_options_data,
                   symbol_contracts, options_data, calls, prev>>

\* the bulk quote request and the records built from its tickers
OptionQuotes ==
    /\ pc = "quotes"
    /\ mark' = Len(log)
    /\ LET symbol_name == symbols[sym_i]
           kind == Behaviour(symbol_name).quotes
           tickers_for_options ==
               [i \in 1..Len(qualified_options) |->
                   OptionTicker(kind, qualified_options[i])]
       IN /\ log' = Append(log, Event("tickers", symbol_name,
                                      kind # "raise", qualified_options))
          /\ IF kind = "raise"
             THEN /\ Raise("RequestError")
                  /\ UNCHANGED <<symbol_options_data, symbol_contracts>>
             ELSE /\ symbol_options_data' =
                        [i \in 1..Len(tickers_for_options) |->
                            option_data(symbol_name, tickers_for_options[i],
                                        spot_price)]
                  /\ symbol_contracts' =
                        [i \in 1..Len(tickers_for_options) |->
                            tickers_for_options[i].contract]
                  /\ pc' = "enrich"
                  /\ error' = error
    /\ UNCHANGED <<inputs, sessionUp, sessionSteady, oi_fetcher, sym_i,
                   underlying_contract, spot_price, strikes_to_check,
                   qualified_options, options_data, calls, prev>>

\* a variant that loses the records when the enrichment fails
enriched_or_nothing(records, contracts, failed) ==
    IF failed THEN <<>> ELSE enhance_options_with_oi(records, contracts)

\* a variant that takes the open interest whether or not the call failed
enriched_always(records, contracts, failed) ==
    enhance_options_with_oi(records, contracts)

\* what the try/except around enhance_options_with_oi leaves in
\* symbol_options_data
enriched(records, contracts, failed) ==
    IF failed THEN records ELSE enhance_options_with_oi(records, contracts)

\* "Enhance with OI data ...", options_data.extend(symbol_options_data)
Enrich ==
    /\ pc = "enrich"
    /\ mark' = Len(log)
    /\ LET symbol_name == symbols[sym_i]
           failed == Behaviour(symbol_name).enrich = "raise"
           doit == oi_fetcher # <<>> /\ enable_oi_streaming
                   /\ symbol_options_data # <<>>
           data == IF doit
                   THEN enriched(symbol_options_data, symbol_contracts, failed)
                   ELSE symbol_options_data
       IN /\ log' = IF doit
                    THEN Append(log, Event("enhance", symbol_name, ~failed,
                                           symbol_contracts))
                    ELSE log
          /\ symbol_options_data' = data
          /\ options_data' = options_data \o data
    /\ NextSymbol
    /\ UNCHANGED <<inputs, sessionUp, sessionSteady, oi_fetcher,
                   underlying_contract, spot_price, strikes_to_check,
                   qualified_options, symbol_contracts, calls, prev>>

\* the environment: the connection is lost while the client is in use
SessionLost ==
    /\ calls >= 1
    /\ sessionUp
    /\ sessionUp' = FALSE
    /\ sessionSteady' = FALSE
    /\ mark' = Len(log)
    /\ UNCHANGED <<inputs, oi_fetcher, pc, sym_i, locals, options_data,
                   error, log, calls, prev>>

\* the environment: once an invocation has ended and before the next one,
\* settings.enable_oi_streaming is switched off (self.oi_fetcher stays)
DisableOiStreaming ==
    /\ pc \in {"done", "raised"}
    /\ calls < MaxCalls
    /\ enable_oi_streaming
    /\ enable_oi_streaming' = FALSE
    /\ sessionSteady' = FALSE
    /\ pc' = "idle"
    /\ prev' = Append(prev, Outcome)
    /\ mark' = Len(log)
    /\ UNCHANGED <<symbols, days_to_expiry, session, sessionUp, oi_fetcher,
                   sym_i, locals, options_data, error, log, calls>>

Next ==
    \/ Invoke
    \/ QualifyUnderlying
    \/ SpotAndStrikes
    \/ QualifyOptions
    \/ OptionQuotes
    \/ Enrich
    \/ SessionLost
    \/ DisableOiStreaming

Spec == Init /\ [][Next]_vars

(***************************************************************************)
(* Properties                                                              *)
(***************************************************************************)
\* the requests made by the latest step
NewEvents == SubSeq(log, mark + 1, Len(log))

IsQualify(i) == i \in 1..Len(log) /\ log[i].ev = "qualify"
IsOptionRequest(e) == e.ev = "qualify" /\ e.cs[1].secType = "OPT"

\* the number of request i among the attempts of its qualify_* call
RECURSIVE AttemptNo(_)
AttemptNo(i) == IF IsQualify(i - 1) THEN 1 + AttemptNo(i - 1) ELSE 1

LastOfCall(i) == ~IsQualify(i + 1)

\* the declared tables of a symbol: aliases, and exchanges of an alias
Aliases(opt, s) ==
    IF opt THEN option_symbol_variations(s) ELSE underlying_symbol_variations(s)
Exchanges(opt, a) ==
    IF opt THEN option_exchange_map(a) ELSE underlying_exchange_map(a)

\* the number of (alias, exchange) pairs declared before alias number a
RECURSIVE PairsBefore(_, _, _)
PairsBefore(opt, s, a) ==
    IF a = 1 THEN 0
    ELSE PairsBefore(opt, s, a - 1) + Len(Exchanges(opt, Aliases(opt, s)[a - 1]))

DeclaredCount(opt, s) == PairsBefore(opt, s, Len(Aliases(opt, s)) + 1)

\* (alias, exchange) is the k-th pair of the declared order
IsDeclaredPair(opt, s, k, alias, exchange) ==
    \E a \in 1..Len(Aliases(opt, s)) :
        \E x \in 1..Len(Exchanges(opt, Aliases(opt, s)[a])) :
            /\ PairsBefore(opt, s, a) + x = k
            /\ Aliases(opt, s)[a] = alias
            /\ Exchanges(opt, alias)[x] = exchange

SpxUnderlyingOrder ==
    <<<<"SPX", "CBOE">>, <<"SPX", "SMART">>, <<"SPXW", "CBOE">>, <<"SPXW", "SMART">>>>
SpxOptionOrder ==
    <<<<"SPXW", "SMART">>, <<"SPXW", "CBOE">>, <<"SPX", "SMART">>, <<"SPX", "CBOE">>>>

Accepted(ans) == ~ans.raised /\ ans.list # <<>> /\ ans.list[1].conId # NoId

\* the session qualifies the request of event e, made as k-th of its call
SessionQualifies(e, k) ==
    LET c == e.cs[1]
    IN IF c.secType = "OPT"
       THEN Accepted(QualifyOptionAsync(e.sym,
                OptionCandidate(c.symbol, c.exchange, ExpiryDate, c.strike,
                                c.right, c.tradingClass), k))
       ELSE Accepted(QualifyUnderlyingAsync(e.sym,
                UnderlyingCandidate(e.sym, c.symbol, c.exchange), k))

QualifiedRequests == SelectSeq(NewEvents, LAMBDA e : e.ev = "qualify" /\ e.ok)

\* C1: every qualify_*_with_fallback call tries the (alias, exchange) pairs
\* in the declared order (aliases in list order, exchanges of each alias in
\* list order; for SPX the orders spelled out above), stops at the first
\* request the session qualifies and goes on after every other one, so that
\* N refusals followed by a success make N+1 requests; the contract returned
\* is the one of the last request.
C1_FallbackOrder ==
    /\ \A i \in (mark + 1)..Len(log) :
         log[i].ev = "qualify" =>
            LET e == log[i]
                k == AttemptNo(i)
                opt == IsOptionRequest(e)
                pair == <<e.cs[1].symbol, e.cs[1].exchange>>
            IN /\ k <= DeclaredCount(opt, e.sym)
               /\ IsDeclaredPair(opt, e.sym, k, pair[1], pair[2])
               /\ e.sym = "SPX" =>
                    pair = IF opt THEN SpxOptionOrder[k]
                           ELSE SpxUnderlyingOrder[k]
               /\ e.ok = SessionQualifies(e, k)
               /\ e.ok => LastOfCall(i)
               /\ (~e.ok /\ k < DeclaredCount(opt, e.sym)) => IsQualify(i + 1)
    /\ (pc = "spot" /\ mark < Len(log)) =>
          /\ log[Len(log)].ev = "qualify" /\ log[Len(log)].ok
          /\ underlying_contract # <<>>
          /\ underlying_contract[1].symbol = log[Len(log)].cs[1].symbol
          /\ underlying_contract[1].exchange = log[Len(log)].cs[1].exchange
    /\ (pc = "quotes" /\ mark < Len(log)) =>
          /\ Len(qualified_options) = Len(QualifiedRequests)
          /\ \A j \in 1..Len(qualified_options) :
                Key(qualified_options[j]) = QualifiedRequests[j].cs[1]

\* two refusals, then SPXW on CBOE qualifies as third request for SPX
C1_Witness ==
    /\ pc = "spot" /\ mark < Len(log)
    /\ symbols[sym_i] = "SPX"
    /\ AttemptNo(Len(log)) = 3
    /\ ~log[Len(log) - 1].ok /\ ~log[Len(log) - 2].ok
    /\ underlying_contract[1].symbol = "SPXW"
    /\ underlying_contract[1].exchange = "CBOE"

\* C2: a qualify_*_with_fallback call all of whose requests the session
\* refuses (raising, empty list, empty identifier) makes one request per
\* declared pair, |aliases| x |exchanges per alias| in all, returns None and
\* raises nothing.
C2_ExhaustionReturnsNone ==
    \A i \in (mark + 1)..Len(log) :
        (/\ log[i].ev = "qualify"
         /\ LastOfCall(i)
         /\ \A d \in 0..(AttemptNo(i) - 1) :
               ~SessionQualifies(log[i - d], AttemptNo(i) - d))
        => LET e == log[i]
               opt == IsOptionRequest(e)
               aliases == Aliases(opt, e.sym)
           IN /\ AttemptNo(i) = Len(aliases) * Len(Exchanges(opt, aliases[1]))
              /\ pc # "raised"
              /\ error = ""
              /\ IF opt
                 THEN \A j \in 1..Len(qualified_options) :
                         ~(/\ qualified_options[j].strike = e.cs[1].strike
                           /\ qualified_options[j].right = e.cs[1].right)
                 ELSE /\ underlying_contract = <<>>
                      /\ pc \in {"underlying", "done"}

\* the four requests for SPX's underlying fail in the three ways
C2_Witness ==
    /\ mark < Len(log)
    /\ log[Len(log)].ev = "qualify" /\ ~log[Len(log)].ok
    /\ log[Len(log)].sym = "SPX"
    /\ ~IsOptionRequest(log[Len(log)])
    /\ AttemptNo(Len(log)) = 4
    /\ underlying_contract = <<>>
    /\ pc \in {"underlying", "done"}

SymPos(s) == CHOOSE p \in 1..Len(symbols) : symbols[p] = s
RecordsOf(s) == SelectSeq(options_data, LAMBDA r : r.symbol = s)

\* the invocation made a request of this kind for symbol s
Requested(s, kind) == \E i \in 1..Len(log) : log[i].ev = kind /\ log[i].sym = s
UnderlyingQualified(s) ==
    \E i \in 1..Len(log) :
        log[i].ev = "qualify" /\ log[i].sym = s /\ log[i].ok
        /\ ~IsOptionRequest(log[i])
OptionRequested(s) ==
    \E i \in 1..Len(log) : log[i].sym = s /\ IsOptionRequest(log[i])
OptionsQualified(s) ==
    Len(SelectSeq(log, LAMBDA e : e.sym = s /\ IsOptionRequest(e) /\ e.ok))

\* the latest step was a qualify_underlying_with_fallback that found nothing
UnderlyingJustFailed ==
    /\ mark < Len(log)
    /\ log[Len(log)].ev = "qualify"
    /\ ~log[Len(log)].ok
    /\ ~IsOptionRequest(log[Len(log)])

\* C3: when the underlying of a symbol qualifies under no pair, get_atm_options
\* goes on with the next symbol (or returns) without raising, having made no
\* spot request and no option request for the symbol and holding no record
\* of it; the call that returns has processed every symbol, has no record,
\* spot request or option request of such a symbol, and has one record per
\* qualified option of every other symbol.
C3_UnqualifiedSymbolSkipped ==
    /\ UnderlyingJustFailed =>
          LET s == log[Len(log)].sym
          IN /\ pc # "raised" /\ error = ""
             /\ IF SymPos(s) < Len(symbols)
                THEN pc = "underlying" /\ sym_i = SymPos(s) + 1
                ELSE pc = "done"
             /\ ~Requested(s, "tickers")
             /\ ~OptionRequested(s)
             /\ RecordsOf(s) = <<>>
    /\ pc = "done" =>
          \A p \in 1..Len(symbols) :
             LET s == symbols[p]
             IN /\ Requested(s, "connect")
                /\ IF UnderlyingQualified(s)
                   THEN Len(RecordsOf(s)) = OptionsQualified(s)
                   ELSE /\ ~Requested(s, "tickers")
                        /\ ~OptionRequested(s)
                        /\ RecordsOf(s) = <<>>

\* the first symbol never qualifies, the second one has its records
C3_Witness ==
    /\ pc = "done"
    /\ Len(symbols) = 2
    /\ ~UnderlyingQualified(symbols[1])
    /\ \E i \in 1..Len(log) : log[i].ev = "qualify" /\ log[i].sym = symbols[1]
    /\ RecordsOf(symbols[1]) = <<>>
    /\ Len(RecordsOf(symbols[2])) = 2 * (2 * num_strikes_each_side + 1)

\* C4: get_atm_options raises only when the market session cannot be
\* obtained: an exception leaving it is the ConnectionError of a failed
\* _ensure_connected, never a failure met while processing a symbol.
C4_RaisesOnlyWithoutSession ==
    pc = "raised" =>
       /\ error = "ConnectionError"
       /\ log[Len(log)].ev = "connect"
       /\ ~log[Len(log)].ok

\* the latest step met a failure of enhance_options_with_oi
EnrichJustFailed ==
    /\ mark < Len(log)
    /\ log[Len(log)].ev = "enhance"
    /\ ~log[Len(log)].ok

\* C5: when enhance_options_with_oi fails for a symbol, get_atm_options does
\* not raise, keeps one record per returned quote of the symbol, each with
\* open_interest 0, and goes on with the next symbol; the call that returns
\* holds these records and has processed the later symbols.
C5_EnrichmentFailureKeepsRecords ==
    /\ EnrichJustFailed =>
          LET s == log[Len(log)].sym
              quotes == log[Len(log) - 1]
          IN /\ pc # "raised" /\ error = ""
             /\ quotes.ev = "tickers" /\ quotes.sym = s
             /\ Len(RecordsOf(s)) = Len(quotes.cs)
             /\ Len(quotes.cs) > 0
             /\ \A j \in 1..Len(RecordsOf(s)) : RecordsOf(s)[j].open_interest = 0
             /\ IF SymPos(s) < Len(symbols)
                THEN pc = "underlying" /\ sym_i = SymPos(s) + 1
                ELSE pc = "done"
    /\ pc = "done" =>
          \A i \in 1..Len(log) :
             (log[i].ev = "enhance" /\ ~log[i].ok) =>
                LET s == log[i].sym
                IN /\ Len(RecordsOf(s)) = Len(log[i].cs)
                   /\ \A j \in 1..Len(RecordsOf(s)) :
                         RecordsOf(s)[j].open_interest = 0
                   /\ \A p \in (SymPos(s) + 1)..Len(symbols) :
                         Requested(symbols[p], "connect")

\* the enrichment fails for the first symbol and works for the second
C5_Witness ==
    /\ pc = "done"
    /\ Len(symbols) = 2
    /\ \E i \in 1..Len(log) :
          log[i].ev = "enhance" /\ ~log[i].ok /\ log[i].sym = symbols[1]
    /\ Len(RecordsOf(symbols[1])) = 2 * (2 * num_strikes_each_side + 1)
    /\ RecordsOf(symbols[1])[1].open_interest = 0
    /\ RecordsOf(symbols[2]) # <<>>
    /\ RecordsOf(symbols[2])[1].open_interest # 0

Returned == pc \in {"done", "raised"}

\* C6: a second get_atm_options on the same client, with the same symbols
\* and a session that answers as before, makes the same requests in the same
\* order (hence the same ladders and qualification choices) and ends the
\* same way with the same result.
C6_SecondCallIdentical ==
    (calls >= 2 /\ Returned /\ sessionSteady) =>
        LET first == prev[calls - 1]
        IN /\ first.pc = pc
           /\ first.error = error
           /\ first.log = log
           /\ first.result = IF pc = "done" THEN options_data ELSE <<>>

\* the second call returned enriched records, the handle of the first in use
C6_Witness ==
    /\ calls = 2 /\ pc = "done" /\ sessionSteady
    /\ oi_fetcher # <<>>
    /\ options_data # <<>>
    /\ options_data[1].open_interest # 0
    /\ prev[1].result = options_data

Abs(x) == IF x < 0 THEN -x ELSE x

\* the ATM strike the ladder in strikes_to_check was built around
Middle == strikes_to_check[num_strikes_each_side + 1]

\* the increment of the symbol's class: 1 for SPY, 5 for index-like symbols
\* and by default
ClassIncrement(s) == IF s = "SPY" THEN USD(1) ELSE USD(5)

\* C7: the ATM strike computed for a symbol is a multiple of its class's
\* increment, at most half an increment away from the (positive) spot price,
\* the even multiple when exactly half-way; spot 5003 gives 5005 and spot
\* 5002 gives 5000 with increment 5.
C7_AtmNearestMultiple ==
    pc = "options" =>
        LET inc == ClassIncrement(symbols[sym_i])
        IN /\ spot_price > 0
           /\ Middle % inc = 0
           /\ 2 * Abs(Middle - spot_price) <= inc
           /\ 2 * Abs(Middle - spot_price) = inc => (Middle \div inc) % 2 = 0
           /\ (inc = USD(5) /\ spot_price = USD(5003)) => Middle = USD(5005)
           /\ (inc = USD(5) /\ spot_price = USD(5002)) => Middle = USD(5000)

C7_Witness ==
    /\ pc = "options"
    /\ symbols[sym_i] = "SPX"
    /\ spot_price = USD(5003)
    /\ Middle = USD(5005)

\* C8: the ladder has 2 * 20 + 1 = 41 strikes, each the previous one plus the
\* symbol's (positive) strike increment, the ATM strike in the middle; around
\* 5000 with increment 5 and 2 strikes each side it is 4990 .. 5010.
C8_LadderShape ==
    /\ pc = "options" =>
          LET inc == strike_increment(symbols[sym_i])
          IN /\ Len(strikes_to_check) = 41
             /\ Len(strikes_to_check) = 2 * num_strikes_each_side + 1
             /\ inc > 0
             /\ \A k \in 1..(Len(strikes_to_check) - 1) :
                   strikes_to_check[k + 1] = strikes_to_check[k] + inc
             /\ Middle = atm_strike(symbols[sym_i], spot_price)
             /\ Middle - strikes_to_check[1] = strikes_to_check[41] - Middle
    /\ Ladder(USD(5000), USD(5), 2) =
          <<USD(4990), USD(4995), USD(5000), USD(5005), USD(5010)>>

C8_Witness ==
    /\ pc = "options"
    /\ symbols[sym_i] = "SPX"
    /\ strikes_to_check[1] = USD(4905)
    /\ strikes_to_check[21] = USD(5005)
    /\ strikes_to_check[41] = USD(5105)

\* C9: the records returned follow the order of the symbols passed; those of
\* one symbol are in ascending strike order, the call before the put of the
\* same strike.
C9_ResultOrder ==
    pc = "done" =>
        \A i \in 1..(Len(options_data) - 1) :
            LET a == options_data[i]
                b == options_data[i + 1]
            IN /\ SymPos(a.symbol) <= SymPos(b.symbol)
               /\ a.symbol = b.symbol =>
                     /\ a.strike <= b.strike
                     /\ a.strike = b.strike => (a.right = "C" /\ b.right = "P")

\* two symbols, each with the call and the put of every strike of its ladder
C9_Witness ==
    /\ pc = "done"
    /\ Len(symbols) = 2
    /\ Len(options_data) = 4 * (2 * num_strikes_each_side + 1)
    /\ options_data[1].symbol = symbols[1]
    /\ options_data[Len(options_data)].symbol = symbols[2]
    /\ options_data[1].right = "C" /\ options_data[2].right = "P"
    /\ options_data[1].strike = options_data[2].strike
    /\ options_data[3].strike > options_data[2].strike

\* the (symbol, alias, exchange) triples found among the records returned
Resolutions ==
    {<<options_data[j].symbol, options_data[j].conId.alias,
       options_data[j].conId.exchange>> : j \in 1..Len(options_data)}

\* C10 as claimed: all records of a symbol in one result were qualified
\* under the same alias and the same exchange.
C10_OneAliasPerSymbol ==
    pc = "done" =>
        \A t, u \in Resolutions : t[1] = u[1] => t = u

\* the k-th pair of the declared option order of symbol s
DeclaredOptionPair(s, k) ==
    CHOOSE pr \in {<<option_symbol_variations(s)[a], x>> :
                      a \in 1..Len(option_symbol_variations(s)),
                      x \in {"SMART", "CBOE", "RUSSELL", "ARCA", "BATS",
                             "AMEX", "ISE", "NASDAQ"}} :
        IsDeclaredPair(TRUE, s, k, pr[1], pr[2])

\* the session qualifies the option when asked for it as k-th request
SessionQualifiesOption(s, k, strike, right) ==
    Accepted(QualifyOptionAsync(s,
        OptionCandidate(DeclaredOptionPair(s, k)[1], DeclaredOptionPair(s, k)[2],
                        ExpiryDate, strike, right, ""), k))

\* C10 amended: each record returned was qualified under the first pair of
\* its symbol's declared option order that the session qualifies for the
\* record's own strike and right (the pair is chosen per contract).
C10_FirstQualifyingPairPerContract ==
    pc = "done" =>
        \A j \in 1..Len(options_data) :
            LET r == options_data[j]
            IN /\ r.underlying_symbol = r.conId.alias
               /\ \E k \in 1..DeclaredCount(TRUE, r.symbol) :
                     /\ DeclaredOptionPair(r.symbol, k) =
                           <<r.conId.alias, r.conId.exchange>>
                     /\ SessionQualifiesOption(r.symbol, k, r.strike, r.right)
                     /\ \A h \in 1..(k - 1) :
                           ~SessionQualifiesOption(r.symbol, h, r.strike, r.right)

\* one result with SPX strikes qualified as SPXW and others as SPX
C10_Witness ==
    /\ pc = "done"
    /\ \E i, j \in 1..Len(options_data) :
          /\ options_data[i].symbol = "SPX" /\ options_data[j].symbol = "SPX"
          /\ options_data[i].underlying_symbol = "SPXW"
          /\ options_data[j].underlying_symbol = "SPX"

Range(q) == {q[i] : i \in 1..Len(q)}

\* the (symbol, strike, right) triples of a list of records
RecordKeys(records) ==
    {<<records[j].symbol, records[j].strike, records[j].right>> :
        j \in 1..Len(records)}

\* the strikes for which the invocation asked an option of symbol s
StrikesAsked(s) ==
    {log[i].cs[1].strike :
        i \in {h \in 1..Len(log) : log[h].sym = s /\ IsOptionRequest(log[h])}}

\* C11: every record built for a symbol has a strike of the ladder computed
\* for that symbol in this call (the strikes the call asked options for) and
\* a right of C or P, and no two records of a result have the same symbol,
\* strike and right.
C11_RecordsOnLadder ==
    /\ pc = "enrich" =>
          /\ StrikesAsked(symbols[sym_i]) = Range(strikes_to_check)
          /\ \A j \in 1..Len(symbol_options_data) :
                /\ symbol_options_data[j].symbol = symbols[sym_i]
                /\ symbol_options_data[j].strike \in Range(strikes_to_check)
                /\ symbol_options_data[j].right \in {"C", "P"}
          /\ Cardinality(RecordKeys(symbol_options_data)) =
                Len(symbol_options_data)
    /\ pc = "done" =>
          /\ \A p \in 1..Len(symbols) :
                LET asked == StrikesAsked(symbols[p])
                IN /\ Cardinality(asked) \in {0, 2 * num_strikes_each_side + 1}
                   /\ \A j \in 1..Len(options_data) :
                         options_data[j].symbol = symbols[p] =>
                            options_data[j].strike \in asked
          /\ Cardinality(RecordKeys(options_data)) = Len(options_data)

\* a result of two symbols with different ladders, some strikes left out
C11_Witness ==
    /\ pc = "done"
    /\ Len(symbols) = 2
    /\ StrikesAsked(symbols[1]) # StrikesAsked(symbols[2])
    /\ RecordsOf(symbols[1]) # <<>>
    /\ RecordsOf(symbols[2]) # <<>>
    /\ Len(options_data) < 4 * (2 * num_strikes_each_side + 1)

\* enhance_options_with_oi was called for symbol s and returned
EnrichedOk(s) ==
    \E i \in 1..Len(log) : log[i].ev = "enhance" /\ log[i].sym = s /\ log[i].ok

\* C12: a record is built with open_interest 0, and a record of a result has
\* another value only if enhance_options_with_oi ran and returned for its
\* symbol in the same call; with the setting off or without an enricher all
\* records of the result have 0, whatever an earlier call returned.
C12_OpenInterestOnlyFromEnrichment ==
    /\ pc = "enrich" =>
          \A j \in 1..Len(symbol_options_data) :
              symbol_options_data[j].open_interest = 0
    /\ pc = "done" =>
          /\ \A p \in 1..Len(symbols) :
                ~EnrichedOk(symbols[p]) =>
                    \A j \in 1..Len(options_data) :
                        options_data[j].symbol = symbols[p] =>
                            options_data[j].open_interest = 0
          /\ (~enable_oi_streaming \/ oi_fetcher = <<>>) =>
                \A j \in 1..Len(options_data) :
                    options_data[j].open_interest = 0

\* the first call returned enriched records; the setting was then switched
\* off and the second call returns the same contracts with open_interest 0
C12_Witness ==
    /\ calls = 2 /\ pc = "done"
    /\ ~enable_oi_streaming /\ oi_fetcher # <<>>
    /\ prev[1].result # <<>>
    /\ prev[1].result[1].open_interest # 0
    /\ Len(options_data) = Len(prev[1].result)
    /\ \A j \in 1..Len(options_data) : options_data[j].open_interest = 0

\* the date n days after the current date, as strftime('%Y%m%d') gives it
DateAfter(n) == IF n = 0 THEN "today" ELSE "today+" \o ToString(n)

\* C13: the expiry of every option qualification request of a call is the
\* date days_to_expiry days after the current date.
C13_ExpiryFollowsDaysToExpiry ==
    \A i \in (mark + 1)..Len(log) :
        IsOptionRequest(log[i]) =>
            log[i].cs[1].expiry = DateAfter(days_to_expiry)

\* a bulk quote request for option contracts
IsOptionQuotes(e) == e.ev = "tickers" /\ e.cs # <<>> /\ e.cs[1].secType = "OPT"

OptionQuoteRequests(s) ==
    SelectSeq(log, LAMBDA e : e.sym = s /\ IsOptionQuotes(e))

\* the qualify_option_with_fallback calls for symbol s begun before request i
\* (every qualify_* call begins by obtaining the session; the first one of a
\* symbol is the call for its underlying)
OptionCallsBefore(s, i) ==
    Cardinality({h \in 1..(i - 1) : log[h].ev = "connect" /\ log[h].sym = s}) - 1

\* the (strike, right) pairs asked for symbol s before request i
PairsAskedBefore(s, i) ==
    {<<log[h].cs[1].strike, log[h].cs[1].right>> :
        h \in {g \in 1..(i - 1) : log[g].sym = s /\ IsOptionRequest(log[g])}}

\* the contracts qualified for symbol s, in the order of their qualification
QualifiedInOrder(s) ==
    LET q == SelectSeq(log, LAMBDA e : e.sym = s /\ IsOptionRequest(e) /\ e.ok)
    IN [j \in 1..Len(q) |-> q[j].cs[1]]

\* the latest step was the loop of option qualifications, and it found nothing
NoOptionJustQualified ==
    /\ mark < Len(log)
    /\ IsOptionRequest(log[Len(log)])
    /\ pc # "raised"
    /\ OptionsQualified(log[Len(log)].sym) = 0

\* C14: the option quote request of a symbol comes after the 2 * 41
\* qualify_option_with_fallback calls of its ladder (every strike, both
\* rights), is the only one for the symbol, and passes the contracts that
\* were qualified, in the order of their qualification, each with its
\* identifier; a call that returns has made one such request for every
\* symbol with a qualified option and none for the others.  When no option
\* of a symbol qualified there is no such request and no record of the
\* symbol, and the next symbol is processed.
C14_OneQuoteRequestAfterQualification ==
    /\ (mark < Len(log) /\ IsOptionQuotes(log[Len(log)])) =>
          LET e == log[Len(log)]
          IN /\ Len(OptionQuoteRequests(e.sym)) = 1
             /\ OptionCallsBefore(e.sym, Len(log)) = 2 * Len(strikes_to_check)
             /\ PairsAskedBefore(e.sym, Len(log)) =
                   Range(strikes_to_check) \X {"C", "P"}
             /\ e.cs = QualifiedInOrder(e.sym)
             /\ Len(e.cs) = Len(qualified_options)
             /\ \A j \in 1..Len(qualified_options) :
                   /\ qualified_options[j].conId # NoId
                   /\ Key(qualified_options[j]) = e.cs[j]
    /\ NoOptionJustQualified =>
          LET s == log[Len(log)].sym
          IN /\ OptionCallsBefore(s, Len(log) + 1) = 2 * Len(strikes_to_check)
             /\ OptionQuoteRequests(s) = <<>>
             /\ symbol_options_data = <<>> \/ symbol_options_data[1].symbol # s
             /\ RecordsOf(s) = <<>>
             /\ IF SymPos(s) < Len(symbols)
                THEN pc = "underlying" /\ sym_i = SymPos(s) + 1
                ELSE pc = "done"
    /\ pc = "done" =>
          \A p \in 1..Len(symbols) :
             LET s == symbols[p]
             IN /\ Len(OptionQuoteRequests(s)) =
                      IF UnderlyingQualified(s) /\ OptionsQualified(s) > 0
                      THEN 1 ELSE 0
                /\ OptionsQualified(s) = 0 => RecordsOf(s) = <<>>
                /\ OptionQuoteRequests(s) # <<>> =>
                      OptionQuoteRequests(s)[1].cs = QualifiedInOrder(s)

\* the first symbol has no qualified option and no quote request, the second
\* one was quoted once, after its 82 calls
C14_Witness ==
    /\ pc = "done"
    /\ Len(symbols) = 2
    /\ OptionRequested(symbols[1])
    /\ OptionsQualified(symbols[1]) = 0
    /\ OptionQuoteRequests(symbols[1]) = <<>>
    /\ Len(OptionQuoteRequests(symbols[2])) = 1
    /\ Len(OptionQuoteRequests(symbols[2])[1].cs) =
          2 * (2 * num_strikes_each_side + 1)
    /\ RecordsOf(symbols[2]) # <<>>

ConnectEvents == SelectSeq(log, LAMBDA e : e.ev = "connect")

\* C15 as claimed: an invocation obtains the session once, so that no
\* ConnectionError arises after its first step.
C15_SessionObtainedOnce ==
    calls >= 1 =>
        /\ Len(ConnectEvents) = 1
        /\ (pc = "raised" /\ error = "ConnectionError") => Len(log) = 1

\* the number of times a call that returned obtained the session
ConnectsExpected ==
    1 + Len(symbols)
      + 2 * (2 * num_strikes_each_side + 1)
          * Cardinality({p \in 1..Len(symbols) : UnderlyingQualified(symbols[p])})

\* C15 amended: the session is obtained at the start of get_atm_options and
\* again at the start of every qualify_underlying_with_fallback and
\* qualify_option_with_fallback call it makes (once per call, not per
\* fallback attempt); when the session cannot be obtained the call raises
\* ConnectionError without a request, and get_atm_options raises it too.
C15_SessionObtainedPerCall ==
    /\ calls >= 1 => (log[1].ev = "connect" /\ log[1].sym = "")
    /\ \A i \in (mark + 1)..Len(log) :
          /\ (log[i].ev = "qualify" /\ AttemptNo(i) = 1) =>
                (log[i - 1].ev = "connect" /\ log[i - 1].ok
                 /\ log[i - 1].sym = log[i].sym)
          /\ (log[i].ev = "connect" /\ log[i].sym # "" /\ log[i].ok) =>
                IsQualify(i + 1)
          /\ log[i].ev = "connect" =>
                /\ log[i].ok = sessionUp
                /\ ~log[i].ok =>
                      (i = Len(log) /\ pc = "raised"
                       /\ error = "ConnectionError")
    /\ (pc = "raised" /\ error = "ConnectionError") =>
          (log[Len(log)].ev = "connect" /\ ~log[Len(log)].ok)
    /\ pc = "done" => Len(ConnectEvents) = ConnectsExpected

\* the session is lost after the spot quote of a symbol: its first option
\* qualification raises ConnectionError
C15_Witness ==
    /\ pc = "raised" /\ error = "ConnectionError"
    /\ Len(log) > 1
    /\ log[Len(log)].ev = "connect" /\ ~log[Len(log)].ok
    /\ log[Len(log) - 1].ev = "tickers"
    /\ log[Len(log) - 1].sym = log[Len(log)].sym
    /\ strikes_to_check # <<>>

\* C16: the increment to which the spot price is rounded is the step of the
\* ladder, and both are the increment of the symbol's class (5 for SPX, NDX
\* and RUT, 1 for SPY, 5 for any other symbol).
C16_RoundingIncrementIsLadderStep ==
    pc = "options" =>
        LET inc == ClassIncrement(symbols[sym_i])
        IN /\ Middle % inc = 0
           /\ strike_increment(symbols[sym_i]) = inc
           /\ \A k \in 1..(Len(strikes_to_check) - 1) :
                 strikes_to_check[k + 1] - strikes_to_check[k] = inc

\* a price that is a positive number
Usable(x) == x.k = "num" /\ x.v > 0

\* the answer to the spot request holds no usable price: no ticker, or
\* neither a usable market price nor a usable close
NoUsablePrice(ticker) ==
    \/ ticker.outcome = "empty"
    \/ /\ ticker.outcome = "ok"
       /\ ~Usable(ticker.marketPrice)
       /\ ~Usable(ticker.close)

\* C17: the spot price of a symbol is a positive number, the placeholder 5000
\* when the spot request returned no usable price; the ladder is built around
\* it and the records carry it; a symbol with the placeholder has its options
\* qualified and quoted like any other and the call does not raise.
C17_SpotAlwaysPositive ==
    /\ pc = "options" =>
          /\ spot_price > 0
          /\ NoUsablePrice(Behaviour(symbols[sym_i]).ticker) =>
                spot_price = SpotPlaceholder
          /\ Middle = atm_strike(symbols[sym_i], spot_price)
    /\ pc = "enrich" =>
          \A j \in 1..Len(symbol_options_data) :
              /\ symbol_options_data[j].underlying_price_at_fetch = spot_price
              /\ spot_price > 0
    /\ pc = "done" =>
          /\ \A j \in 1..Len(options_data) :
                options_data[j].underlying_price_at_fetch > 0
          /\ \A p \in 1..Len(symbols) :
                LET s == symbols[p]
                IN (UnderlyingQualified(s) /\ NoUsablePrice(Behaviour(s).ticker))
                   => /\ OptionCallsBefore(s, Len(log) + 1) =
                            2 * (2 * num_strikes_each_side + 1)
                      /\ Len(OptionQuoteRequests(s)) =
                            IF OptionsQualified(s) > 0 THEN 1 ELSE 0
                      /\ Len(RecordsOf(s)) = OptionsQualified(s)
                      /\ \A j \in 1..Len(options_data) :
                            options_data[j].symbol = s =>
                               options_data[j].underlying_price_at_fetch =
                                  SpotPlaceholder

\* a negative market price and no close: the records carry the placeholder
C17_Witness ==
    /\ pc = "done"
    /\ symbols # <<>>
    /\ session.target = symbols[1]
    /\ session.ticker.outcome = "ok"
    /\ session.ticker.marketPrice = Num(USD(-1))
    /\ session.ticker.close = NaN
    /\ Len(RecordsOf(symbols[1])) = 2 * (2 * num_strikes_each_side + 1)
    /\ options_data[1].underlying_price_at_fetch = SpotPlaceholder

\* C18: the spot price is the market price when that is a positive number,
\* else the close when that is a positive number, else the placeholder 5000.
C18_CloseUsedWhenMarketPriceUnusable ==
    pc = "options" =>
        LET ticker == Behaviour(symbols[sym_i]).ticker
        IN spot_price =
              IF ticker.outcome = "ok" /\ Usable(ticker.marketPrice)
              THEN ticker.marketPrice.v
              ELSE IF ticker.outcome = "ok" /\ Usable(ticker.close)
              THEN ticker.close.v
              ELSE SpotPlaceholder

\* the trading class the session gave the underlying it qualified for s
UnderlyingTradingClass(s) ==
    IF Behaviour(s).tradingClass THEN underlying_contract[1].symbol ELSE ""

\* C19: every option qualification request of a symbol carries as trading
\* class the trading class of the underlying contract qualified for the
\* symbol when that is not empty, whatever the alias; otherwise SPXW when the
\* alias is SPXW, and nothing for any other alias.
C19_TradingClassHint ==
    \A i \in (mark + 1)..Len(log) :
        IsOptionRequest(log[i]) =>
            LET c == log[i].cs[1]
                hint == underlying_contract[1].tradingClass
            IN /\ hint = UnderlyingTradingClass(log[i].sym)
               /\ c.tradingClass =
                     IF hint # "" THEN hint
                     ELSE IF c.symbol = "SPXW" THEN "SPXW" ELSE ""

\* the underlying of SPX came back with trading class SPX: the requests under
\* the alias SPXW carry SPX
C19_Witness ==
    /\ pc = "quotes"
    /\ mark < Len(log)
    /\ underlying_contract[1].tradingClass = "SPX"
    /\ \E i \in (mark + 1)..Len(log) :
          /\ IsOptionRequest(log[i])
          /\ log[i].cs[1].symbol = "SPXW"
          /\ log[i].cs[1].tradingClass = "SPX"

\* the no-quote sentinel of bid and ask
NoQuote == Num(USD(-1))

\* a value that is there and is a number
PresentNumeric(x) == x.k = "num"

\* the model value of a greek when the ticker has one that is a number
ModelValue(ticker, greek) ==
    IF ticker.modelGreeks # <<>> /\ PresentNumeric(ticker.modelGreeks[1][greek])
    THEN ticker.modelGreeks[1][greek]
    ELSE PyNone

\* C20: the record built from a quote has bid (ask) null when the quote's bid
\* (ask) is -1 and the quote's value otherwise, so never -1; its
\* implied_volatility is the model value when there is one and it is a
\* number, else the raw value when there is one and it is a number, else
\* null; its gamma and delta are the model values when there and numbers,
\* else null.
C20_RecordFields ==
    /\ (pc = "enrich" /\ mark < Len(log)) =>
          /\ Len(symbol_options_data) = Len(qualified_options)
          /\ \A j \in 1..Len(symbol_options_data) :
                LET r == symbol_options_data[j]
                    t == OptionTicker(Behaviour(symbols[sym_i]).quotes,
                                      qualified_options[j])
                IN /\ r.bid = IF t.bid = NoQuote THEN PyNone ELSE t.bid
                   /\ r.ask = IF t.ask = NoQuote THEN PyNone ELSE t.ask
                   /\ r.bid # NoQuote /\ r.ask # NoQuote
                   /\ r.implied_volatility =
                         IF ModelValue(t, "impliedVol") # PyNone
                         THEN ModelValue(t, "impliedVol")
                         ELSE IF PresentNumeric(t.impliedVolatility)
                         THEN t.impliedVolatility
                         ELSE PyNone
                   /\ r.gamma = ModelValue(t, "gamma")
                   /\ r.delta = ModelValue(t, "delta")
    /\ pc = "done" =>
          \A j \in 1..Len(options_data) :
              options_data[j].bid # NoQuote /\ options_data[j].ask # NoQuote

\* a call quoted without bid and with a model that has no numbers, a put
\* quoted without ask, with a model gamma of 0 and no implied volatility
C20_Witness ==
    /\ pc = "enrich" /\ mark < Len(log)
    /\ Len(symbol_options_data) >= 2
    /\ symbol_options_data[1].right = "C"
    /\ symbol_options_data[1].bid = PyNone
    /\ symbol_options_data[1].ask = Num(USD(3))
    /\ symbol_options_data[1].implied_volatility = Num(19)
    /\ symbol_options_data[1].gamma = PyNone
    /\ symbol_options_data[1].delta = PyNone
    /\ symbol_options_data[2].right = "P"
    /\ symbol_options_data[2].bid = NaN
    /\ symbol_options_data[2].ask = PyNone
    /\ symbol_options_data[2].implied_volatility = PyNone
    /\ symbol_options_data[2].gamma = Num(0)
    /\ symbol_options_data[2].delta = Num(-50)

====
